---- MODULE Spec2Model ----
(***************************************************************************)
(* The Google Analytics template tag of django-analytical                  *)
(* (analytical/templatetags/google_analytics.py) as a state machine.       *)
(*                                                                         *)
(* State: the process-wide Django settings (fixed once chosen), the node   *)
(* produced by compiling the tag, and the outcome of the last call         *)
(* (compile or render): the exception raised, the render context and the   *)
(* markup returned.                                                        *)
(*                                                                         *)
(* Python values are tagged records, so that values of different Python    *)
(* types can be compared: [t |-> "absent"] (attribute not defined),        *)
(* [t |-> "None"], [t |-> "False"], [t |-> "True"], [t |-> "int", n],      *)
(* [t |-> "dec", v] (a number, v counted in thousandths),                  *)
(* [t |-> "str", s] (s a sequence of characters) and                       *)
(* [t |-> "tuple", name, value].                                           *)
(***************************************************************************)
EXTENDS Integers, Sequences, FiniteSets, TLC

VARIABLES settings, node, call, raised, context, html

vars == <<settings, node, call, raised, context, html>>

(***************************************************************************)
(* Bounds of the model.                                                    *)
(***************************************************************************)
\* longest GOOGLE_ANALYTICS_PROPERTY_ID string tried by SpecConstruct
MaxIdLen == 7
\* most custom-variable slots present in one render context
MaxVars == 2
\* most arguments written after the tag name in the template
MaxTagArgs == 1

(***************************************************************************)
(* Python values.                                                          *)
(***************************************************************************)
Absent == [t |-> "absent"]
PyNone == [t |-> "None"]
PyFalse == [t |-> "False"]
PyTrue == [t |-> "True"]
PyInt(n) == [t |-> "int", n |-> n]
PyStr(s) == [t |-> "str", s |-> s]
PyTuple(name, value) == [t |-> "tuple", name |-> name, value |-> value]

\* one unit of a number, in the thousandths the model counts in
Unit == 10 ^ 3
Dec(v) == [t |-> "dec", v |-> v]

\* a call's result: the exception raised ("" when none) and the value returned
Return(v) == [raised |-> "", ret |-> v]
Raise(e) == [raised |-> e, ret |-> PyNone]

(***************************************************************************)
(* Module constants of google_analytics.py.                                *)
(***************************************************************************)
TRACK_SINGLE_DOMAIN == 1
TRACK_MULTIPLE_SUBDOMAINS == 2
TRACK_MULTIPLE_DOMAINS == 3

\* the exponents of ZEROPLACES = Decimal('0') and TWOPLACES = Decimal('0.01'),
\* as numbers of decimal places
ZEROPLACES == 0
\* (mutant) the rates quantized with the exponent meant for the cookie lifetime
TWOPLACES_asZeroPlaces == ZEROPLACES
TWOPLACES == 2

Digits == {"0", "1", "2", "3", "4", "5", "6", "7", "8", "9"}

\* re.compile(r'^UA-\d+-\d+$'), as the sequence of the pattern's items
PROPERTY_ID_RE == <<"^", "U", "A", "-", "\\d+", "-", "\\d+", "$">>

\* Python's $ (without re.MULTILINE) matches at the end of the string and also
\* just before a newline that is the string's last character.
DollarAt(s, k) ==
    \/ k = Len(s) + 1
    \/ k = Len(s) /\ s[k] = "\n"

\* whether items pi.. of the pattern match s from position si on
RECURSIVE re_match_at(_, _, _, _)
re_match_at(pattern, pi, s, si) ==
    IF pi > Len(pattern) THEN TRUE
    ELSE LET item == pattern[pi]
         IN  CASE item = "^" -> si = 1 /\ re_match_at(pattern, pi + 1, s, si)
               [] item = "$" -> DollarAt(s, si) /\ re_match_at(pattern, pi + 1, s, si)
               [] item = "\\d+" ->
                    \E e \in si..Len(s) :
                        /\ \A k \in si..e : s[k] \in Digits
                        /\ re_match_at(pattern, pi + 1, s, e + 1)
               [] OTHER -> /\ si <= Len(s)
                           /\ s[si] = item
                           /\ re_match_at(pattern, pi + 1, s, si + 1)

\* pattern.search(s): a match starting anywhere in s
re_search(pattern, s) ==
    \E start \in 1..(Len(s) + 1) : re_match_at(pattern, 1, s, start)

\* the statements, as the format strings of the module with their arguments
CREATE_CODE(property_id, additional_args) ==
    [kind |-> "create", property_id |-> property_id,
     additional_args |-> additional_args]
SEND_PAGEVIEW_CODE == [kind |-> "send_pageview"]
DOMAIN_CODE(domain) == [kind |-> "autoLink", domain |-> domain]
REQUIRE_LINKER_CODE == [kind |-> "require_linker"]
CUSTOM_VAR_CODE(name, value) == [kind |-> "set", name |-> name, value |-> value]
ANONYMIZE_IP_CODE == [kind |-> "anonymizeIp"]

\* additional_args: "" when no argstring was collected, else ", {" + the
\* argstrings joined by "," + "}"
NoArgs == [braces |-> FALSE, args |-> <<>>]
ArgObject(argstrings) == [braces |-> TRUE, args |-> argstrings]

\* SETUP_CODE % {'commands': " ".join(commands)}: the script element around
\* the commands; comment is the label of the HTML comment around it, if any
SETUP_CODE(commands) == [commands |-> commands, comment |-> ""]

(***************************************************************************)
(* Library behaviour the module relies on.                                 *)
(***************************************************************************)
\* getattr(settings, name, default)
getattr(name, default) ==
    IF settings[name] = Absent THEN default ELSE settings[name]

\* Decimal.quantize(exp) under the default context (ROUND_HALF_EVEN): v, in
\* thousandths, rounded to `places` decimal places; the result is the
\* coefficient of the rounded number, counted in units of 10^-places.
quantize(v, places) ==
    LET m == 10 ^ (3 - places)
        q == v \div m
        r == v % m
    IN  [coeff |-> IF 2 * r < m THEN q
                   ELSE IF 2 * r > m THEN q + 1
                   ELSE IF q % 2 = 0 THEN q ELSE q + 1,
         places |-> places]

\* "%s" % d for a quantized Decimal d: the integer part and exactly
\* d.places fractional digits
DecimalStr(d) ==
    LET p == 10 ^ d.places
        a == IF d.coeff < 0 THEN 0 - d.coeff ELSE d.coeff
        f == a % p
    IN  [neg |-> d.coeff < 0,
         int |-> a \div p,
         frac |-> [k \in 1..d.places |-> (f \div (10 ^ (d.places - k))) % 10]]

(***************************************************************************)
(* analytical.utils: the helpers the module imports.                       *)
(***************************************************************************)
\* the setting's value, or a configuration error when it is missing or the
\* pattern does not match it
get_required_setting(setting, value_re, invalid_msg) ==
    LET value == settings[setting]
    IN  IF value = Absent THEN Raise("AnalyticalException")
        ELSE IF ~re_search(value_re, value.s) THEN Raise("AnalyticalException")
        ELSE Return(value.s)

\* the domain resolved for the render context: a string or None
get_domain(ctx, prefix) == ctx.domain

\* whether the render context belongs to an internal client
is_internal_ip(ctx, prefix) == ctx.internal

\* the markup wrapped in an HTML comment naming the service
disable_html(h, service) == [h EXCEPT !.comment = service]

(***************************************************************************)
(* GoogleAnalyticsNode.                                                    *)
(***************************************************************************)
NoNode == PyNone

\* GoogleAnalyticsNode.__init__
GoogleAnalyticsNode ==
    LET r == get_required_setting("GOOGLE_ANALYTICS_PROPERTY_ID", PROPERTY_ID_RE,
                                  "must be a string looking like 'UA-XXXXXX-Y'")
    IN  IF r.raised # "" THEN Raise(r.raised)
        ELSE Return([property_id |-> r.ret])

\* (mutant) the lower bound of the sample rate is not checked
_get_create_command_noLowerBound(self, ctx, tracking_type) ==
    LET a0 == IF tracking_type # PyInt(TRACK_SINGLE_DOMAIN)
              THEN <<[key |-> "allowLinker", value |-> [lit |-> "true"]]>>
              ELSE <<>>
        sampleRate == getattr("GOOGLE_ANALYTICS_SAMPLE_RATE", PyFalse)
        sessionCookieTimeout ==
            getattr("GOOGLE_ANALYTICS_SESSION_COOKIE_TIMEOUT_SECONDS", PyFalse)
        siteSpeedSampleRate ==
            getattr("GOOGLE_ANALYTICS_SITE_SPEED_SAMPLE_RATE", PyFalse)
        a1 == IF sampleRate # PyFalse
              THEN Append(a0, [key |-> "sampleRate",
                               value |-> DecimalStr(quantize(sampleRate.v, TWOPLACES))])
              ELSE a0
        a2 == IF sessionCookieTimeout # PyFalse
              THEN Append(a1, [key |-> "cookieExpires",
                               value |-> DecimalStr(quantize(sessionCookieTimeout.v,
                                                             ZEROPLACES))])
              ELSE a1
        a3 == IF siteSpeedSampleRate # PyFalse
              THEN Append(a2, [key |-> "siteSpeedSampleRate",
                               value |-> DecimalStr(quantize(siteSpeedSampleRate.v,
                                                             TWOPLACES))])
              ELSE a2
    IN  IF sampleRate # PyFalse /\ ~(sampleRate.v <= 100 * Unit)
        THEN Raise("AnalyticalException")
        ELSE IF sessionCookieTimeout # PyFalse /\ sessionCookieTimeout.v < 0
        THEN Raise("AnalyticalException")
        ELSE IF siteSpeedSampleRate # PyFalse
                /\ ~(0 <= siteSpeedSampleRate.v /\ siteSpeedSampleRate.v <= 100 * Unit)
        THEN Raise("AnalyticalException")
        ELSE Return(CREATE_CODE(self.property_id,
                                IF a3 # <<>> THEN ArgObject(a3) ELSE NoArgs))

\* (mutant) the settings are tested for truth ("if sampleRate:") instead of
\* "is not False", so that a configured 0 counts as not configured
_get_create_command_truthy(self, ctx, tracking_type) ==
    LET Truthy(x) == x # PyFalse /\ x # Dec(0)
        a0 == IF tracking_type # PyInt(TRACK_SINGLE_DOMAIN)
              THEN <<[key |-> "allowLinker", value |-> [lit |-> "true"]]>>
              ELSE <<>>
        sampleRate == getattr("GOOGLE_ANALYTICS_SAMPLE_RATE", PyFalse)
        sessionCookieTimeout ==
            getattr("GOOGLE_ANALYTICS_SESSION_COOKIE_TIMEOUT_SECONDS", PyFalse)
        siteSpeedSampleRate ==
            getattr("GOOGLE_ANALYTICS_SITE_SPEED_SAMPLE_RATE", PyFalse)
        a1 == IF Truthy(sampleRate)
              THEN Append(a0, [key |-> "sampleRate",
                               value |-> DecimalStr(quantize(sampleRate.v, TWOPLACES))])
              ELSE a0
        a2 == IF Truthy(sessionCookieTimeout)
              THEN Append(a1, [key |-> "cookieExpires",
                               value |-> DecimalStr(quantize(sessionCookieTimeout.v,
                                                             ZEROPLACES))])
              ELSE a1
        a3 == IF Truthy(siteSpeedSampleRate)
              THEN Append(a2, [key |-> "siteSpeedSampleRate",
                               value |-> DecimalStr(quantize(siteSpeedSampleRate.v,
                                                             TWOPLACES))])
              ELSE a2
    IN  IF Truthy(sampleRate)
           /\ ~(0 <= sampleRate.v /\ sampleRate.v <= 100 * Unit)
        THEN Raise("AnalyticalException")
        ELSE IF Truthy(sessionCookieTimeout) /\ sessionCookieTimeout.v < 0
        THEN Raise("AnalyticalException")
        ELSE IF Truthy(siteSpeedSampleRate)
                /\ ~(0 <= siteSpeedSampleRate.v /\ siteSpeedSampleRate.v <= 100 * Unit)
        THEN Raise("AnalyticalException")
        ELSE Return(CREATE_CODE(self.property_id,
                                IF a3 # <<>> THEN ArgObject(a3) ELSE NoArgs))

_get_create_command(self, ctx, tracking_type) ==
    LET a0 == IF tracking_type # PyInt(TRACK_SINGLE_DOMAIN)
              THEN <<[key |-> "allowLinker", value |-> [lit |-> "true"]]>>
              ELSE <<>>
        sampleRate == getattr("GOOGLE_ANALYTICS_SAMPLE_RATE", PyFalse)
        sessionCookieTimeout ==
            getattr("GOOGLE_ANALYTICS_SESSION_COOKIE_TIMEOUT_SECONDS", PyFalse)
        siteSpeedSampleRate ==
            getattr("GOOGLE_ANALYTICS_SITE_SPEED_SAMPLE_RATE", PyFalse)
        a1 == IF sampleRate # PyFalse
              THEN Append(a0, [key |-> "sampleRate",
                               value |-> DecimalStr(quantize(sampleRate.v, TWOPLACES))])
              ELSE a0
        a2 == IF sessionCookieTimeout # PyFalse
              THEN Append(a1, [key |-> "cookieExpires",
                               value |-> DecimalStr(quantize(sessionCookieTimeout.v,
                                                             ZEROPLACES))])
              ELSE a1
        a3 == IF siteSpeedSampleRate # PyFalse
              THEN Append(a2, [key |-> "siteSpeedSampleRate",
                               value |-> DecimalStr(quantize(siteSpeedSampleRate.v,
                                                             TWOPLACES))])
              ELSE a2
    IN  IF sampleRate # PyFalse
           /\ ~(0 <= sampleRate.v /\ sampleRate.v <= 100 * Unit)
        THEN Raise("AnalyticalException")
        ELSE IF sessionCookieTimeout # PyFalse /\ sessionCookieTimeout.v < 0
        THEN Raise("AnalyticalException")
        ELSE IF siteSpeedSampleRate # PyFalse
                /\ ~(0 <= siteSpeedSampleRate.v /\ siteSpeedSampleRate.v <= 100 * Unit)
        THEN Raise("AnalyticalException")
        ELSE Return(CREATE_CODE(self.property_id,
                                IF a3 # <<>> THEN ArgObject(a3) ELSE NoArgs))

\* (mutant) the pageview is sent before the linker is set up
_get_domain_commands_pageviewFirst(self, ctx) ==
    LET tracking_type == getattr("GOOGLE_ANALYTICS_TRACKING_STYLE",
                                 PyInt(TRACK_SINGLE_DOMAIN))
        create == _get_create_command(self, ctx, tracking_type)
        domain == get_domain(ctx, "google_analytics")
    IN  IF create.raised # "" THEN Raise(create.raised)
        ELSE IF tracking_type # PyInt(TRACK_SINGLE_DOMAIN)
        THEN IF domain = PyNone
             THEN Raise("AnalyticalException")
             ELSE Return(<<create.ret, SEND_PAGEVIEW_CODE, REQUIRE_LINKER_CODE,
                           DOMAIN_CODE(domain.s)>>)
        ELSE Return(<<create.ret, SEND_PAGEVIEW_CODE>>)

\* (mutant) an unresolved domain leaves out the autoLink statement instead of
\* raising
_get_domain_commands_skipsDomain(self, ctx) ==
    LET tracking_type == getattr("GOOGLE_ANALYTICS_TRACKING_STYLE",
                                 PyInt(TRACK_SINGLE_DOMAIN))
        create == _get_create_command(self, ctx, tracking_type)
        domain == get_domain(ctx, "google_analytics")
    IN  IF create.raised # "" THEN Raise(create.raised)
        ELSE IF tracking_type # PyInt(TRACK_SINGLE_DOMAIN)
        THEN IF domain = PyNone
             THEN Return(<<create.ret, REQUIRE_LINKER_CODE, SEND_PAGEVIEW_CODE>>)
             ELSE Return(<<create.ret, REQUIRE_LINKER_CODE, DOMAIN_CODE(domain.s),
                           SEND_PAGEVIEW_CODE>>)
        ELSE Return(<<create.ret, SEND_PAGEVIEW_CODE>>)

_get_domain_commands(self, ctx) ==
    LET tracking_type == getattr("GOOGLE_ANALYTICS_TRACKING_STYLE",
                                 PyInt(TRACK_SINGLE_DOMAIN))
        create == _get_create_command(self, ctx, tracking_type)
        domain == get_domain(ctx, "google_analytics")
    IN  IF create.raised # "" THEN Raise(create.raised)
        ELSE IF tracking_type # PyInt(TRACK_SINGLE_DOMAIN)
        THEN IF domain = PyNone
             THEN Raise("AnalyticalException")
             ELSE Return(<<create.ret, REQUIRE_LINKER_CODE, DOMAIN_CODE(domain.s),
                           SEND_PAGEVIEW_CODE>>)
        ELSE Return(<<create.ret, SEND_PAGEVIEW_CODE>>)

\* the commands of slots i..9, in the order the comprehension visits them
RECURSIVE custom_var_from(_, _)
custom_var_from(ctx, i) ==
    IF i > 9 THEN <<>>
    ELSE LET var == ctx.vars[i]
         IN  (IF var # PyNone THEN <<CUSTOM_VAR_CODE(var.name, var.value)>> ELSE <<>>)
             \o custom_var_from(ctx, i + 1)

\* (mutant) the slots are visited from 9 down to 1
RECURSIVE custom_var_down(_, _)
custom_var_down(ctx, i) ==
    IF i < 1 THEN <<>>
    ELSE LET var == ctx.vars[i]
         IN  (IF var # PyNone THEN <<CUSTOM_VAR_CODE(var.name, var.value)>> ELSE <<>>)
             \o custom_var_down(ctx, i - 1)

_get_custom_var_commands_reversed(ctx) == custom_var_down(ctx, 9)

_get_custom_var_commands(ctx) == custom_var_from(ctx, 1)

_get_other_commands(ctx) ==
    IF getattr("GOOGLE_ANALYTICS_ANONYMIZE_IP", PyFalse) \notin {PyFalse, PyNone}
    THEN <<ANONYMIZE_IP_CODE>>
    ELSE <<>>

\* (mutant) the other commands are added before the custom variables
render_otherFirst(self, ctx) ==
    LET d == _get_domain_commands(self, ctx)
    IN  IF d.raised # "" THEN Raise(d.raised)
        ELSE LET commands == d.ret \o _get_other_commands(ctx)
                                   \o _get_custom_var_commands(ctx)
                 h == SETUP_CODE(commands)
             IN  IF is_internal_ip(ctx, "GOOGLE_ANALYTICS")
                 THEN Return(disable_html(h, "Google Analytics"))
                 ELSE Return(h)

\* (mutant) an internal context is answered with an empty disabled script
\* before any command is assembled
render_internalFirst(self, ctx) ==
    IF is_internal_ip(ctx, "GOOGLE_ANALYTICS")
    THEN Return(disable_html(SETUP_CODE(<<>>), "Google Analytics"))
    ELSE LET d == _get_domain_commands(self, ctx)
         IN  IF d.raised # "" THEN Raise(d.raised)
             ELSE Return(SETUP_CODE(d.ret \o _get_custom_var_commands(ctx)
                                          \o _get_other_commands(ctx)))

render(self, ctx) ==
    LET d == _get_domain_commands(self, ctx)
    IN  IF d.raised # "" THEN Raise(d.raised)
        ELSE LET commands == d.ret \o _get_custom_var_commands(ctx)
                                   \o _get_other_commands(ctx)
                 h == SETUP_CODE(commands)
             IN  IF is_internal_ip(ctx, "GOOGLE_ANALYTICS")
                 THEN Return(disable_html(h, "Google Analytics"))
                 ELSE Return(h)

(***************************************************************************)
(* Inputs.                                                                 *)
(***************************************************************************)
Slots == 1..9

\* the name/value pair a template puts in slot i when it sets the slot; the
\* names are not in slot order
SlotNames == <<"page", "owner", "lang", "group", "beta", "zone", "kind", "cart", "ad">>
SlotVar(i) == PyTuple(SlotNames[i], i)

\* what the domain helper resolves for a context
Domains == {PyNone, PyStr("example.com"), PyStr("shop.example.org")}

Contexts ==
    { [vars |-> [i \in Slots |-> IF i \in S THEN SlotVar(i) ELSE PyNone],
       domain |-> d, internal |-> b] :
        S \in {T \in SUBSET Slots : Cardinality(T) <= MaxVars},
        d \in Domains,
        b \in BOOLEAN }

NoContext == PyNone
NoHtml == PyNone

Chars == {"U", "A", "-", "1", "\n"}
Strings(n) == UNION {[1..k -> Chars] : k \in 0..n}

ValidId == <<"U", "A", "-", "1", "2", "3", "-", "4">>

SettingNames ==
    {"GOOGLE_ANALYTICS_PROPERTY_ID", "GOOGLE_ANALYTICS_TRACKING_STYLE",
     "GOOGLE_ANALYTICS_SAMPLE_RATE",
     "GOOGLE_ANALYTICS_SESSION_COOKIE_TIMEOUT_SECONDS",
     "GOOGLE_ANALYTICS_SITE_SPEED_SAMPLE_RATE", "GOOGLE_ANALYTICS_ANONYMIZE_IP"}

\* the values each setting is tried with
PropertyIds == {Absent, PyStr(ValidId), PyStr(<<"U", "A", "-", "1">>)}
TrackingStyles == {Absent, PyInt(TRACK_SINGLE_DOMAIN),
                   PyInt(TRACK_MULTIPLE_SUBDOMAINS), PyInt(TRACK_MULTIPLE_DOMAINS)}
\* -0.001, 0, 55.5, 55.555, 100.001
SampleRates == {Absent, PyFalse, Dec(-1), Dec(0), Dec(55500), Dec(55555), Dec(100001)}
\* -0.001, 0, 2.5
CookieTimeouts == {Absent, PyFalse, Dec(-1), Dec(0), Dec(2500)}
\* 12.345, 150
SiteSpeedSampleRates == {Absent, PyFalse, Dec(12345), Dec(150000)}
AnonymizeIps == {Absent, PyFalse, PyTrue}

MkSettings(pid, style, rate, timeout, speed, anon) ==
    [n \in SettingNames |->
        CASE n = "GOOGLE_ANALYTICS_PROPERTY_ID" -> pid
          [] n = "GOOGLE_ANALYTICS_TRACKING_STYLE" -> style
          [] n = "GOOGLE_ANALYTICS_SAMPLE_RATE" -> rate
          [] n = "GOOGLE_ANALYTICS_SESSION_COOKIE_TIMEOUT_SECONDS" -> timeout
          [] n = "GOOGLE_ANALYTICS_SITE_SPEED_SAMPLE_RATE" -> speed
          [] OTHER -> anon]

(***************************************************************************)
(* The state machine.                                                      *)
(***************************************************************************)
Idle ==
    /\ node = NoNode
    /\ call = "idle"
    /\ raised = ""
    /\ context = NoContext
    /\ html = NoHtml

Init ==
    /\ \E pid \in PropertyIds, style \in TrackingStyles, rate \in SampleRates,
          timeout \in CookieTimeouts, speed \in SiteSpeedSampleRates,
          anon \in AnonymizeIps :
            settings = MkSettings(pid, style, rate, timeout, speed, anon)
    /\ Idle

\* the template engine compiles {% google_analytics %}, written with nargs
\* arguments after the tag name
google_analytics(nargs) ==
    /\ call = "idle"
    /\ call' = "tag"
    /\ IF nargs + 1 > 1
       THEN /\ raised' = "TemplateSyntaxError"
            /\ node' = NoNode
       ELSE LET n == GoogleAnalyticsNode
            IN  /\ raised' = n.raised
                /\ node' = n.ret
    /\ UNCHANGED <<settings, context, html>>

\* (mutant) render consumes the node's property ID
Render_clearsPropertyId(ctx) ==
    /\ node # NoNode
    /\ LET r == render(node, ctx)
       IN  /\ raised' = r.raised
           /\ html' = r.ret
    /\ call' = "render"
    /\ context' = ctx
    /\ node' = [node EXCEPT !.property_id = <<>>]
    /\ UNCHANGED settings

\* the template engine renders the compiled node for a request
Render(ctx) ==
    /\ node # NoNode
    /\ LET r == render(node, ctx)
       IN  /\ raised' = r.raised
           /\ html' = r.ret
    /\ call' = "render"
    /\ context' = ctx
    /\ UNCHANGED <<settings, node>>

RenderRequest == call = "idle" /\ \E ctx \in Contexts : Render(ctx)

\* the same node rendered once more for the same context
RenderAgain == call = "render" /\ Render(context)

\* the caller has taken the result of the call (the node, the markup or the
\* exception); the node stays with its template
Done ==
    /\ call # "idle"
    /\ call' = "idle"
    /\ raised' = ""
    /\ context' = NoContext
    /\ html' = NoHtml
    /\ UNCHANGED <<settings, node>>

Compile == \E nargs \in 0..MaxTagArgs : google_analytics(nargs)

Next == Compile \/ RenderRequest \/ RenderAgain \/ Done

Spec == Init /\ [][Next]_vars

\* compilation alone, over every property ID string up to MaxIdLen
InitConstruct ==
    /\ \E s \in Strings(MaxIdLen) :
            settings = MkSettings(PyStr(s), Absent, Absent, Absent, Absent, Absent)
    /\ Idle

NextConstruct == Compile \/ Done

SpecConstruct == InitConstruct /\ [][NextConstruct]_vars

(***************************************************************************)
(* Vocabulary of the properties.                                           *)
(***************************************************************************)
Rendered == call = "render"
Succeeded == Rendered /\ raised = ""
Failed == Rendered /\ raised = "AnalyticalException" /\ html = NoHtml

Setting(name) == settings[name]
Configured(name) == Setting(name) \notin {Absent, PyFalse}
SingleDomain ==
    Setting("GOOGLE_ANALYTICS_TRACKING_STYLE") \in {Absent, PyInt(TRACK_SINGLE_DOMAIN)}

Kinds(cmds) == [k \in DOMAIN cmds |-> cmds[k].kind]
IndicesOf(cmds, kind) == {k \in DOMAIN cmds : cmds[k].kind = kind}

\* C1 (as claimed): a node is constructed exactly when the property ID is
\* UA-<digits>-<digits> and nothing else; otherwise construction raises a
\* configuration error and leaves no node.
IsPropertyId(s) ==
    \E i \in 4..Len(s) :
        /\ i + 2 <= Len(s)
        /\ s[1] = "U" /\ s[2] = "A" /\ s[3] = "-"
        /\ \A k \in 4..i : s[k] \in Digits
        /\ s[i + 1] = "-"
        /\ \A k \in (i + 2)..Len(s) : s[k] \in Digits

C1_ConstructIffFullMatch ==
    (call = "tag" /\ raised # "TemplateSyntaxError") =>
        LET pid == Setting("GOOGLE_ANALYTICS_PROPERTY_ID")
            valid == pid # Absent /\ IsPropertyId(pid.s)
        IN  /\ valid => (node # NoNode /\ raised = "")
            /\ ~valid => (node = NoNode /\ raised = "AnalyticalException")

\* C2: a successful render starts with create, then (only when the tracking
\* style is not single-domain) require-linker and autoLink for the resolved
\* domain, then send-pageview; these are all the domain-related commands.
DomainKinds == {"create", "require_linker", "autoLink", "send_pageview"}

C2_DomainCommandOrder ==
    Succeeded =>
        LET cmds == html.commands
            n == IF SingleDomain THEN 2 ELSE 4
        IN  /\ Len(cmds) >= n
            /\ Kinds(SubSeq(cmds, 1, n)) =
                  IF SingleDomain THEN <<"create", "send_pageview">>
                  ELSE <<"create", "require_linker", "autoLink", "send_pageview">>
            /\ \A k \in DOMAIN cmds : k > n => cmds[k].kind \notin DomainKinds
            /\ ~SingleDomain => /\ context.domain # PyNone
                                /\ cmds[3].domain = context.domain.s

C2_Witness ==
    /\ Succeeded
    /\ Setting("GOOGLE_ANALYTICS_TRACKING_STYLE") = PyInt(TRACK_MULTIPLE_DOMAINS)
    /\ context.domain = PyStr("example.com")
    /\ context.vars[1] # PyNone

\* C3: with a tracking style other than single-domain and no resolved domain,
\* render raises a configuration error and returns no markup, whatever the
\* other settings, the custom variables and the internal-IP classification.
C3_NoDomainFails ==
    (Rendered /\ ~SingleDomain /\ context.domain = PyNone) => Failed

C3_Witness ==
    /\ Rendered /\ ~SingleDomain /\ context.domain = PyNone
    /\ context.internal
    /\ context.vars[2] # PyNone
    /\ Setting("GOOGLE_ANALYTICS_SAMPLE_RATE") = Dec(55500)
    /\ Setting("GOOGLE_ANALYTICS_ANONYMIZE_IP") = PyTrue

\* C4: a sample rate or site-speed sample rate outside [0,100], or a negative
\* session cookie timeout, makes render (not construction) raise a
\* configuration error with no markup; a successful render emits only rates
\* within [0,100] and a cookie lifetime of at least 0.
OutOfRate(name) ==
    Configured(name) /\ (Setting(name).v < 0 \/ Setting(name).v > 100 * Unit)
OutOfRange ==
    \/ OutOfRate("GOOGLE_ANALYTICS_SAMPLE_RATE")
    \/ OutOfRate("GOOGLE_ANALYTICS_SITE_SPEED_SAMPLE_RATE")
    \/ /\ Configured("GOOGLE_ANALYTICS_SESSION_COOKIE_TIMEOUT_SECONDS")
       /\ Setting("GOOGLE_ANALYTICS_SESSION_COOKIE_TIMEOUT_SECONDS").v < 0

CreateArgs == html.commands[1].additional_args.args
ArgsOf(key) == {k \in DOMAIN CreateArgs : CreateArgs[k].key = key}

RECURSIVE DigitsValue(_)
DigitsValue(ds) ==
    IF ds = <<>> THEN 0 ELSE 10 * DigitsValue(SubSeq(ds, 1, Len(ds) - 1)) + ds[Len(ds)]

\* the number a formatted decimal denotes, in units of 10^-(its digits)
Coefficient(e) == e.int * 10 ^ Len(e.frac) + DigitsValue(e.frac)

C4_RangeCheckedAtRender ==
    /\ (Rendered /\ OutOfRange) => Failed
    /\ Succeeded =>
          \A k \in DOMAIN CreateArgs :
              LET a == CreateArgs[k]
              IN  /\ a.key \in {"sampleRate", "siteSpeedSampleRate"} =>
                        /\ ~a.value.neg
                        /\ Coefficient(a.value) <= 100 * 10 ^ Len(a.value.frac)
                  /\ a.key = "cookieExpires" => ~a.value.neg
    /\ (call = "tag" /\ raised # "TemplateSyntaxError"
           /\ Setting("GOOGLE_ANALYTICS_PROPERTY_ID") = PyStr(ValidId)) =>
          (node # NoNode /\ raised = "")

C4_Witness ==
    /\ Failed
    /\ node # NoNode
    /\ Setting("GOOGLE_ANALYTICS_SAMPLE_RATE") = Dec(-1)
    /\ ~OutOfRate("GOOGLE_ANALYTICS_SITE_SPEED_SAMPLE_RATE")
    /\ SingleDomain

\* C5: a successful render has exactly one custom-variable statement for each
\* slot 1..9 present in the context and none for an absent slot, in ascending
\* slot order, all after the send-pageview statement.
Present == {i \in Slots : context.vars[i] # PyNone}
SlotOf(c) ==
    CHOOSE i \in Slots :
        /\ context.vars[i] # PyNone
        /\ context.vars[i].name = c.name
        /\ context.vars[i].value = c.value

C5_CustomVarsInSlotOrder ==
    Succeeded =>
        LET cmds == html.commands
            sets == IndicesOf(cmds, "set")
        IN  /\ Cardinality(sets) = Cardinality(Present)
            /\ \A i \in Present :
                  \E k \in sets : /\ cmds[k].name = context.vars[i].name
                                  /\ cmds[k].value = context.vars[i].value
            /\ \A k \in sets :
                  \E i \in Present : /\ cmds[k].name = context.vars[i].name
                                     /\ cmds[k].value = context.vars[i].value
            /\ \A k1, k2 \in sets : k1 < k2 => SlotOf(cmds[k1]) < SlotOf(cmds[k2])
            /\ \A k \in sets : \E p \in IndicesOf(cmds, "send_pageview") : p < k

C5_Witness ==
    /\ Succeeded
    /\ Present = {1, 3}
    /\ Len(html.commands) = 4

\* C6: with the anonymize-IP setting true a successful render holds exactly
\* one anonymize-IP statement and it is the last command; with the setting
\* false or absent it holds none.
C6_AnonymizeIpLast ==
    Succeeded =>
        LET cmds == html.commands
            anon == IndicesOf(cmds, "anonymizeIp")
        IN  IF Setting("GOOGLE_ANALYTICS_ANONYMIZE_IP") = PyTrue
            THEN anon = {Len(cmds)}
            ELSE anon = {}

C6_Witness ==
    /\ Succeeded
    /\ Setting("GOOGLE_ANALYTICS_ANONYMIZE_IP") = PyTrue
    /\ Cardinality(Present) = 2

\* C7: the markup is wrapped in an HTML comment exactly when the context is
\* internal, and the outcome for the same settings and context with the
\* classification reversed is the same: the same commands on success, the
\* same configuration error on failure.
Reclassified == [context EXCEPT !.internal = ~@]

C7_InternalOnlyWraps ==
    Rendered =>
        LET other == render(node, Reclassified)
        IN  /\ other.raised = raised
            /\ raised = "" =>
                  /\ (html.comment # "") <=> context.internal
                  /\ other.ret.commands = html.commands

C7_Witness ==
    /\ Succeeded
    /\ context.internal
    /\ html.comment = "Google Analytics"
    /\ Len(html.commands) > 2

\* C8: the create statement's argument object holds allowLinker, sampleRate,
\* cookieExpires and siteSpeedSampleRate, in that order, each exactly when its
\* setting is configured (neither absent nor False; 0 counts as configured),
\* and there is no argument object when none applies.
ExpectedKeys ==
    (IF SingleDomain THEN <<>> ELSE <<"allowLinker">>)
    \o (IF Configured("GOOGLE_ANALYTICS_SAMPLE_RATE") THEN <<"sampleRate">> ELSE <<>>)
    \o (IF Configured("GOOGLE_ANALYTICS_SESSION_COOKIE_TIMEOUT_SECONDS")
        THEN <<"cookieExpires">> ELSE <<>>)
    \o (IF Configured("GOOGLE_ANALYTICS_SITE_SPEED_SAMPLE_RATE")
        THEN <<"siteSpeedSampleRate">> ELSE <<>>)

C8_CreateKeys ==
    Succeeded =>
        /\ [k \in DOMAIN CreateArgs |-> CreateArgs[k].key] = ExpectedKeys
        /\ html.commands[1].additional_args.braces <=> (ExpectedKeys # <<>>)

C8_Witness ==
    /\ Succeeded
    /\ Setting("GOOGLE_ANALYTICS_SAMPLE_RATE") = Dec(0)
    /\ Setting("GOOGLE_ANALYTICS_SESSION_COOKIE_TIMEOUT_SECONDS") = PyFalse
    /\ Setting("GOOGLE_ANALYTICS_SITE_SPEED_SAMPLE_RATE") = Absent
    /\ ~SingleDomain

\* C9: an emitted sampleRate or siteSpeedSampleRate has exactly two decimal
\* places and an emitted cookieExpires none, each the configured value rounded
\* to that many places; sample rate 55.5 is emitted as 55.50.
Abs(x) == IF x < 0 THEN 0 - x ELSE x

\* e is v (in thousandths) rounded to `places` places, ties to even
RoundedTo(e, v, places) ==
    LET m == 10 ^ (3 - places)
        c == Coefficient(e)
    IN  /\ Len(e.frac) = places
        /\ ~e.neg
        /\ 2 * Abs(c * m - v) <= m
        /\ 2 * Abs(c * m - v) = m => c % 2 = 0

C9_Quantized ==
    Succeeded =>
        /\ \A k \in ArgsOf("sampleRate") :
              /\ RoundedTo(CreateArgs[k].value,
                           Setting("GOOGLE_ANALYTICS_SAMPLE_RATE").v, 2)
              /\ Setting("GOOGLE_ANALYTICS_SAMPLE_RATE") = Dec(55500) =>
                    (CreateArgs[k].value.int = 55 /\ CreateArgs[k].value.frac = <<5, 0>>)
        /\ \A k \in ArgsOf("siteSpeedSampleRate") :
              RoundedTo(CreateArgs[k].value,
                        Setting("GOOGLE_ANALYTICS_SITE_SPEED_SAMPLE_RATE").v, 2)
        /\ \A k \in ArgsOf("cookieExpires") :
              RoundedTo(CreateArgs[k].value,
                        Setting("GOOGLE_ANALYTICS_SESSION_COOKIE_TIMEOUT_SECONDS").v, 0)

C9_Witness ==
    /\ Succeeded
    /\ Setting("GOOGLE_ANALYTICS_SAMPLE_RATE") = Dec(55500)
    /\ Setting("GOOGLE_ANALYTICS_SESSION_COOKIE_TIMEOUT_SECONDS") = Dec(2500)
    /\ Setting("GOOGLE_ANALYTICS_SITE_SPEED_SAMPLE_RATE") = Dec(12345)
    /\ ArgsOf("sampleRate") # {} /\ ArgsOf("cookieExpires") # {}
    /\ ArgsOf("siteSpeedSampleRate") # {}

====
